---- MODULE Spec2Model ----
(***************************************************************************)
(* pakr-rawata: raw ATA access to hard disks.                              *)
(*                                                                         *)
(* The model follows one Device value (src/lib.rs) from open to drop on    *)
(* either transport backend: the SG_IO / HDIO_DRIVE_CMD ioctl backend      *)
(* (src/linux.rs) and the CAM backend (src/freebsd.rs).  The kernel is the *)
(* environment: the result of every libc / libcam call is an input of the  *)
(* action that makes the call.  The identify-record decoders of lib.rs are *)
(* operators, exercised by the specification SpecCodec.                    *)
(*                                                                         *)
(* Numbers wider than 31 bits are kept as limbs: a u64 sector address is   *)
(* [hi, lo] with value hi * 2^24 + lo, a decoded u64 is the sequence of    *)
(* its eight base-256 digits, least significant first.                     *)
(***************************************************************************)
EXTENDS Integers, Sequences, FiniteSets, TLC

(***************************************************************************)
(* Bounds of the model.                                                    *)
(***************************************************************************)
\* explicit Device::close calls on one handle
MaxCloses == 2
\* buffer lengths 0 .. MaxSmallSectors sectors are all tried, next to the
\* lengths around the 8-bit and 16-bit boundaries of the sector count
MaxSmallSectors == 1
\* longest text stored in an identify string field
MaxTextLen == 3

(***************************************************************************)
(* Program constants.                                                      *)
(***************************************************************************)
SECTOR_BYTES == 512
MAX_TRANSFER_SECTORS == 65536
MAX_TRANSFER_BYTES == MAX_TRANSFER_SECTORS * SECTOR_BYTES

SG_ATA_16 == 133
SG_ATA_16_LEN == 16
SG_ATA_LBA48 == 1
SG_ATA_PROTO_DMA == 12
SG_FLAG_DIRECT_IO == 1
SG_CDB2_TLEN_NSECT == 2
SG_CDB2_TLEN_SECTORS == 4
SG_CDB2_TDIR_TO_DEV == 0
SG_CDB2_TDIR_FROM_DEV == 8
SG_DXFER_TO_DEV == -2
SG_DXFER_FROM_DEV == -3

\* libcam bindings used by freebsd.rs (values of the FreeBSD headers the
\* build binds: sys/ata.h, cam/cam_ccb.h)
ATA_READ_DMA48 == 37
ATA_WRITE_DMA48 == 53
ATA_ATA_IDENTIFY == 236
ATA_DEV_LBA == 64
CAM_ATAIO_48BIT == 1
CAM_ATAIO_NEEDRESULT == 8
CAM_ATAIO_DMA == 16
ccb_flags_CAM_DIR_IN == 64
ccb_flags_CAM_DIR_OUT == 128
ccb_flags_CAM_DEV_QFRZDIS == 1024
xpt_opcode_XPT_ATA_IO == 408

(***************************************************************************)
(* Fixed-width arithmetic.                                                 *)
(***************************************************************************)
RECURSIVE Pow2(_)
Pow2(n) == IF n = 0 THEN 1 ELSE 2 * Pow2(n - 1)

\* x as u8
AsU8(x) == x % 256

\* x >> k on a non-negative integer that fits TLC's integers
Shr(x, k) == x \div Pow2(k)

RECURSIVE BitOr(_, _)
BitOr(a, b) ==
    IF a = 0 THEN b
    ELSE IF b = 0 THEN a
    ELSE (IF a % 2 = 1 \/ b % 2 = 1 THEN 1 ELSE 0) + 2 * BitOr(a \div 2, b \div 2)

RECURSIVE BitAnd(_, _)
BitAnd(a, b) ==
    IF a = 0 \/ b = 0 THEN 0
    ELSE (IF a % 2 = 1 /\ b % 2 = 1 THEN 1 ELSE 0) + 2 * BitAnd(a \div 2, b \div 2)

\* width of one limb of a u64 sector address
LimbBits == 3 * 8

\* (sector as u32 >> k) as u8: the address cut to 32 bits before the shift
SectorShrU8_u32(sector, k) ==
    IF k < LimbBits THEN AsU8(Shr(sector.lo, k))
    ELSE IF k = LimbBits THEN AsU8(sector.hi)
    ELSE 0

\* (sector >> k) as u8, k a multiple of 8: the byte lies inside one limb
SectorShrU8(sector, k) ==
    IF k < LimbBits THEN AsU8(Shr(sector.lo, k))
    ELSE AsU8(Shr(sector.hi, k - LimbBits))

\* sector as u32, as limbs
SectorAsU32(sector) == [hi |-> sector.hi % 256, lo |-> sector.lo]

(***************************************************************************)
(* Inputs.                                                                 *)
(***************************************************************************)
\* sector addresses below 2^48: 0, 0x060504030201, 2^25 - 1, 2^48 - 1
Sectors ==
    { [hi |-> 0, lo |-> 0], [hi |-> 394500, lo |-> 197121],
      [hi |-> 1, lo |-> Pow2(24) - 1],
      [hi |-> Pow2(24) - 1, lo |-> Pow2(24) - 1] }

SectorCounts ==
    (0 .. MaxSmallSectors) \cup {256}
        \cup {MAX_TRANSFER_SECTORS - 1, MAX_TRANSFER_SECTORS, MAX_TRANSFER_SECTORS + 1}

\* buffer.len(): whole sectors, and lengths that are no whole sectors
Lens ==
    { s * SECTOR_BYTES : s \in SectorCounts }
        \cup { s * SECTOR_BYTES + 1 : s \in 0 .. MaxSmallSectors }

\* the address the replies are tried at
BaseSector == [hi |-> 394500, lo |-> 197121]

\* the (sector, buffer.len()) pairs of the read and write calls tried: every
\* address with a one-sector buffer, every length at one address
Transfers ==
    { [sector |-> s, len |-> SECTOR_BYTES] : s \in Sectors }
        \cup { [sector |-> BaseSector, len |-> l] : l \in Lens }

\* io::Error::last_os_error().kind(): decided by errno; an errno the
\* standard library has no kind for reads as Uncategorized
OsErrorKinds == {"PermissionDenied", "NotFound", "Uncategorized"}

\* what ioctl(SG_IO) leaves behind: its return value, the first two bytes of
\* the sense buffer sb, which the code zeroes before the call, and the kind
\* last_os_error() has after a failure
SgReplies ==
    { [ans |-> -1, sb0 |-> 0, sb1 |-> 0, kind |-> k] : k \in OsErrorKinds }
        \cup { [ans |-> 0, sb0 |-> 0, sb1 |-> 0, kind |-> "-"] }
        \cup { [ans |-> 0, sb0 |-> 114, sb1 |-> k, kind |-> "-"] : k \in {0, 3, 15, 16, 255} }

\* what ioctl(HDIO_DRIVE_CMD) leaves behind: its return value and the status
\* register the kernel stores over the first byte of the task
HdioReplies ==
    { [ans |-> -1, status |-> 81, kind |-> k] : k \in OsErrorKinds }
        \cup { [ans |-> 0, status |-> st, kind |-> "-"] : st \in {80, 81} }

\* what cam_send_ccb leaves behind: its return value and ataio.res.status
\* (0x50 ready, 0x51 ready with ERR, 0x00 nothing stored)
CamReplies ==
    { [rc |-> -1, status |-> 0, kind |-> k] : k \in OsErrorKinds }
        \cup { [rc |-> 0, status |-> st, kind |-> "-"] : st \in {0, 80, 81} }

\* the replies tried to a transfer: all of them to the one-sector transfer
\* at BaseSector, the error-free one to the others
AllRepliesTo(t) == t.sector = BaseSector /\ t.len = SECTOR_BYTES
SgRepliesTo(t) ==
    IF AllRepliesTo(t) THEN SgReplies ELSE { r \in SgReplies : r.ans = 0 /\ r.sb0 = 0 }
CamRepliesTo(t) ==
    IF AllRepliesTo(t) THEN CamReplies ELSE { r \in CamReplies : r.rc = 0 /\ r.status = 80 }

(***************************************************************************)
(* State.                                                                  *)
(***************************************************************************)
VARIABLES
    target,       \* the build: [os, debug_assertions, big_endian]
    dev,          \* the Device value: "none", "live", "dropped", "failed"
    handle,       \* os::ATA: ATA(fd) or ATA {cam, ccb}; NoHandle before open
    closes,       \* explicit Device::close calls made so far (history)
    os_res,       \* the kernel's view of each resource: "none", "held", "released"
    releases,     \* release calls executed so far, per resource (history)
    ccb,          \* the memory of the command-control block (CAM backend)
    last,         \* the last operation: its inputs, its transport call, its result
    ident,        \* the IdentifyDeviceData the caller holds: [addr, bytes] or NoIdent
    decoded       \* the value the last decoder call returned

vars == <<target, dev, handle, closes, os_res, releases, ccb, last, ident, decoded>>

NoHandle == [fd |-> -1, cam |-> 0, ccb |-> 0]
NoIdent == [addr |-> 0, bytes |-> <<>>, field |-> "none", text |-> <<>>]
NoCmd == [via |-> "none"]
NoReply == [none |-> TRUE]
NoDecoded == [fn |-> "none"]

\* the result of an operation that makes no transport call
Quiet(op, result, kind) ==
    [op |-> op, result |-> result, kind |-> kind, calls |-> 0, stale |-> FALSE,
     len |-> 0, sector |-> [hi |-> 0, lo |-> 0], cmd |-> NoCmd, reply |-> NoReply]

Targets == [os : {"linux", "freebsd"}, debug_assertions : BOOLEAN, big_endian : BOOLEAN]

\* struct ccb_hdr: the linkage cam_getccb fills in and the fields each
\* operation assigns
CcbHdrFresh ==
    [linkage |-> "path/target/lun", func_code |-> 0, flags |-> 0, retry_count |-> 0,
     cbfcnp |-> "unset", timeout |-> 0]

CmdRegs ==
    {"command", "flags", "sector_count", "sector_count_exp", "lba_low", "lba_mid",
     "lba_high", "lba_low_exp", "lba_mid_exp", "lba_high_exp", "device", "control",
     "features", "features_exp"}

\* the ccb past its header, all bytes zero
CcbBodyZero ==
    [cmd |-> [r \in CmdRegs |-> 0], res_status |-> 0, data_ptr |-> "null",
     dxfer_len |-> 0, ata_flags |-> 0]

\* the ccb past its header as an allocator that does not clear it leaves it
CcbBodyJunk ==
    [cmd |-> [r \in CmdRegs |-> 165], res_status |-> 165, data_ptr |-> "junk",
     dxfer_len |-> 165, ata_flags |-> 165]

NoCcb == [hdr |-> CcbHdrFresh, body |-> CcbBodyZero]

Init ==
    /\ target \in Targets
    /\ dev = "none"
    /\ handle = NoHandle
    /\ closes = 0
    /\ os_res = [fd |-> "none", cam |-> "none", ccb |-> "none"]
    /\ releases = [fd |-> 0, cam |-> 0, ccb |-> 0]
    /\ ccb = NoCcb
    /\ last = Quiet("none", "none", "-")
    /\ ident = NoIdent
    /\ decoded = NoDecoded

(***************************************************************************)
(* open                                                                    *)
(***************************************************************************)
\* linux.rs ATA::open.  nul: the path holds an interior NUL byte; h: what
\* libc::open returns.
linux_open(nul, h, kind) ==
    IF nul THEN
        \* CString::new(..).unwrap()
        /\ dev' = "failed"
        /\ last' = Quiet("open", "panic", "-")
        /\ UNCHANGED <<handle, os_res>>
    ELSE IF h < 0 THEN
        /\ dev' = "failed"
        /\ last' = Quiet("open", "Err", kind)
        /\ UNCHANGED <<handle, os_res>>
    ELSE
        /\ dev' = "live"
        /\ handle' = [NoHandle EXCEPT !.fd = h]
        /\ os_res' = [os_res EXCEPT !.fd = "held"]
        /\ last' = Quiet("open", "Ok", "-")

\* freebsd.rs ATA::open.  rc: cam_get_device; cam: cam_open_spec_device;
\* got: cam_getccb (0 is the null pointer); body: the block as allocated.
freebsd_open(nul, rc, cam, got, kind, body) ==
    IF nul THEN
        \* CString::new(..)?
        /\ dev' = "failed"
        /\ last' = Quiet("open", "Err", "InvalidInput")
        /\ UNCHANGED <<handle, os_res, ccb>>
    ELSE IF rc = -1 THEN
        /\ dev' = "failed"
        /\ last' = Quiet("open", "Err", kind)
        /\ UNCHANGED <<handle, os_res, ccb>>
    ELSE IF cam = 0 THEN
        /\ dev' = "failed"
        /\ last' = Quiet("open", "Err", kind)
        /\ UNCHANGED <<handle, os_res, ccb>>
    ELSE IF got = 0 THEN
        \* returns with the device of cam_open_spec_device still open
        /\ dev' = "failed"
        /\ os_res' = [os_res EXCEPT !.cam = "held"]
        /\ last' = Quiet("open", "Err", kind)
        /\ UNCHANGED <<handle, ccb>>
    ELSE
        /\ dev' = "live"
        /\ handle' = [NoHandle EXCEPT !.cam = cam, !.ccb = got]
        /\ os_res' = [os_res EXCEPT !.cam = "held", !.ccb = "held"]
        /\ ccb' = [hdr |-> CcbHdrFresh, body |-> body]
        /\ last' = Quiet("open", "Ok", "-")

\* lib.rs Device::open
Device_open ==
    /\ dev = "none"
    /\ \E nul \in BOOLEAN, kind \in OsErrorKinds :
        IF target.os = "linux" THEN
            /\ \E h \in {-1, 3} : linux_open(nul, h, kind)
            /\ UNCHANGED ccb
        ELSE
            \E rc \in {-1, 0}, cam \in {0, 1}, got \in {0, 2},
               body \in {CcbBodyZero, CcbBodyJunk} :
                freebsd_open(nul, rc, cam, got, kind, body)
    /\ UNCHANGED <<target, closes, releases, ident, decoded>>

(***************************************************************************)
(* close and drop                                                          *)
(***************************************************************************)
\* linux.rs ATA::close: libc::close(self.0), whatever was closed before
linux_close ==
    /\ releases' = [releases EXCEPT !.fd = @ + 1]
    /\ os_res' = [os_res EXCEPT !.fd = "released"]

\* freebsd.rs ATA::close: both pointers keep their value after the call, so
\* both tests pass on every call
freebsd_close ==
    /\ releases' =
        [releases EXCEPT
            !.ccb = IF handle.ccb # 0 THEN @ + 1 ELSE @,
            !.cam = IF handle.cam # 0 THEN @ + 1 ELSE @]
    /\ os_res' =
        [os_res EXCEPT
            !.ccb = IF handle.ccb # 0 THEN "released" ELSE @,
            !.cam = IF handle.cam # 0 THEN "released" ELSE @]

ATA_close == IF target.os = "linux" THEN linux_close ELSE freebsd_close

\* lib.rs Device::close
Device_close ==
    /\ dev = "live"
    /\ closes < MaxCloses
    /\ closes' = closes + 1
    /\ ATA_close
    /\ last' = Quiet("close", "Ok", "-")
    /\ UNCHANGED <<target, dev, handle, ccb, ident, decoded>>

\* impl Drop for ATA, run when the Device goes out of scope
Device_drop ==
    /\ dev = "live"
    /\ dev' = "dropped"
    /\ ATA_close
    /\ last' = Quiet("drop", "Ok", "-")
    /\ UNCHANGED <<target, handle, closes, ccb, ident, decoded>>

(***************************************************************************)
(* The ioctl backend (linux.rs): read, write, info                         *)
(***************************************************************************)
\* what one operation leaves in `last`
Outcome(op, sector, len, result, kind, calls, stale, cmd, reply) ==
    [op |-> op, result |-> result, kind |-> kind, calls |-> calls, stale |-> stale,
     len |-> len, sector |-> sector, cmd |-> cmd, reply |-> reply]

\* the two assert!s that open raw_read and raw_write
linux_asserts(len) == len % SECTOR_BYTES = 0 /\ len <= MAX_TRANSFER_BYTES

\* let count = (buffer.len() / SECTOR_BYTES) as u32: below 2^32 for every
\* length the asserts let through
linux_count(len) == len \div SECTOR_BYTES

\* cdb[5] without the cast to u8
linux_nsect_h_uncast(count) == Shr(count, 8)

\* cdb[5], cdb[6]
linux_nsect_h(count) == AsU8(Shr(count, 8))
linux_nsect_l(count) == AsU8(Shr(count, 0))

\* the command descriptor block of raw_read, indexed as in the source
linux_raw_read_cdb(sector, count) ==
    [i \in 0 .. 15 |->
        CASE i = 0 -> SG_ATA_16
          [] i = 1 -> BitOr(SG_ATA_LBA48, SG_ATA_PROTO_DMA)
          [] i = 2 -> BitOr(BitOr(SG_CDB2_TLEN_NSECT, SG_CDB2_TLEN_SECTORS),
                            SG_CDB2_TDIR_FROM_DEV)
          [] i = 5 -> linux_nsect_h(count)
          [] i = 6 -> linux_nsect_l(count)
          [] i = 7 -> SectorShrU8(sector, 24)
          [] i = 8 -> SectorShrU8(sector, 0)
          [] i = 9 -> SectorShrU8(sector, 32)
          [] i = 10 -> SectorShrU8(sector, 8)
          [] i = 11 -> SectorShrU8(sector, 40)
          [] i = 12 -> SectorShrU8(sector, 16)
          [] i = 13 -> 224
          [] i = 14 -> 37
          [] OTHER -> 0]

\* raw_write with the descriptor block of raw_read left as it was copied
linux_raw_write_cdb_as_read(sector, count) == linux_raw_read_cdb(sector, count)

\* the command descriptor block of raw_write
linux_raw_write_cdb(sector, count) ==
    [i \in 0 .. 15 |->
        CASE i = 0 -> SG_ATA_16
          [] i = 1 -> BitOr(SG_ATA_LBA48, SG_ATA_PROTO_DMA)
          [] i = 2 -> BitOr(BitOr(SG_CDB2_TLEN_NSECT, SG_CDB2_TLEN_SECTORS),
                            SG_CDB2_TDIR_TO_DEV)
          [] i = 5 -> linux_nsect_h(count)
          [] i = 6 -> linux_nsect_l(count)
          [] i = 7 -> SectorShrU8(sector, 24)
          [] i = 8 -> SectorShrU8(sector, 0)
          [] i = 9 -> SectorShrU8(sector, 32)
          [] i = 10 -> SectorShrU8(sector, 8)
          [] i = 11 -> SectorShrU8(sector, 40)
          [] i = 12 -> SectorShrU8(sector, 16)
          [] i = 13 -> 224
          [] i = 14 -> 53
          [] OTHER -> 0]

\* the SgTaskHdr handed to ioctl(self.0, SG_IO, &task)
linux_task(fd, cdb, direction, sector, count) ==
    [via |-> "SG_IO", fd |-> fd, interface_id |-> "S", dxfer_direction |-> direction,
     cmd_len |-> SG_ATA_16_LEN, mx_sb_len |-> 32, iovec_count |-> 0,
     dxfer_len |-> 512 * count, cmdp |-> cdb, timeout |-> 1000,
     flags |-> SG_FLAG_DIRECT_IO, pack_id |-> SectorAsU32(sector)]

\* sg_error_to_io: assert!(err <= 15), then an error of kind Other
sg_error_to_io(err) ==
    IF err <= 15 THEN [result |-> "Err", kind |-> "Other"]
    ELSE [result |-> "panic", kind |-> "-"]

\* the tail of raw_read and raw_write, after the ioctl returned
linux_sg_result(reply) ==
    IF reply.ans < 0 THEN [result |-> "Err", kind |-> reply.kind]
    ELSE IF reply.sb0 # 0 THEN sg_error_to_io(reply.sb1)
    ELSE [result |-> "Ok", kind |-> "-"]

linux_raw_read(sector, len, reply) ==
    IF ~linux_asserts(len) THEN
        Outcome("read", sector, len, "panic", "-", 0, FALSE, NoCmd, NoReply)
    ELSE
        LET count == linux_count(len)
            task == linux_task(handle.fd, linux_raw_read_cdb(sector, count),
                               SG_DXFER_FROM_DEV, sector, count)
            r == linux_sg_result(reply)
        IN  Outcome("read", sector, len, r.result, r.kind, 1, os_res.fd # "held",
                    task, reply)

linux_raw_write(sector, len, reply) ==
    IF ~linux_asserts(len) THEN
        Outcome("write", sector, len, "panic", "-", 0, FALSE, NoCmd, NoReply)
    ELSE
        LET count == linux_count(len)
            task == linux_task(handle.fd, linux_raw_write_cdb(sector, count),
                               SG_DXFER_TO_DEV, sector, count)
            r == linux_sg_result(reply)
        IN  Outcome("write", sector, len, r.result, r.kind, 1, os_res.fd # "held",
                    task, reply)

\* the Task handed to ioctl(self.0, HDIO_DRIVE_CMD, &t)
linux_info_task(fd) ==
    [via |-> "HDIO_DRIVE_CMD", fd |-> fd, command |-> 236, sector |-> 0,
     feature |-> 0, nsector |-> 1]

\* raw_info: Ok whenever the ioctl returns 0 or more; nothing the kernel
\* stored in the task is looked at but the 512 data bytes
linux_raw_info_result(reply) ==
    IF reply.ans < 0 THEN [result |-> "Err", kind |-> reply.kind]
    ELSE [result |-> "Ok", kind |-> "-"]

linux_raw_info(reply) ==
    LET r == linux_raw_info_result(reply)
    IN  Outcome("info", [hi |-> 0, lo |-> 0], SECTOR_BYTES, r.result, r.kind, 1,
                os_res.fd # "held", linux_info_task(handle.fd), reply)

(***************************************************************************)
(* The CAM backend (freebsd.rs): read, write, info                         *)
(***************************************************************************)
\* the two debug_assert!s that open raw_read and raw_write: compiled in only
\* with debug assertions
freebsd_debug_asserts(len) ==
    target.debug_assertions =>
        /\ len >= SECTOR_BYTES /\ len <= MAX_TRANSFER_BYTES
        /\ len % SECTOR_BYTES = 0

\* the block re-used as the last call left it
ccb_clear_nothing(c) == c

\* ptr::write_bytes(ccb.add(CCB_H_S), 0u8, CCB_S - CCB_H_S)
ccb_clear_all_except_hdr(c) == [c EXCEPT !.body = CcbBodyZero]

LbaRegs ==
    {"lba_low", "lba_mid", "lba_high", "lba_low_exp", "lba_mid_exp", "lba_high_exp"}

\* the registers of ataio.cmd an operation assigns after the clear: raw_read
\* and raw_write all of them, raw_info all but the six LBA registers
freebsd_assigned(op) == IF op = "info" THEN CmdRegs \ LbaRegs ELSE CmdRegs

\* ataio.cmd.sector_count, ataio.cmd.sector_count_exp
freebsd_sector_count(len) == AsU8(len \div 512)
freebsd_sector_count_exp(len) == AsU8(Shr(len \div 512, 8))

\* the six LBA registers of raw_read and raw_write
freebsd_lba(cmd, sector) ==
    [cmd EXCEPT
        !.lba_low = SectorShrU8(sector, 0),
        !.lba_mid = SectorShrU8(sector, 8),
        !.lba_high = SectorShrU8(sector, 16),
        !.lba_low_exp = SectorShrU8(sector, 24),
        !.lba_mid_exp = SectorShrU8(sector, 32),
        !.lba_high_exp = SectorShrU8(sector, 40)]

\* the header fields every operation assigns
freebsd_hdr(hdr, dir) ==
    [hdr EXCEPT
        !.func_code = xpt_opcode_XPT_ATA_IO,
        !.flags = BitOr(dir, ccb_flags_CAM_DEV_QFRZDIS),
        !.retry_count = 1,
        !.cbfcnp = "None",
        !.timeout = 5000]

\* the ccb of raw_read as handed to cam_send_ccb
freebsd_raw_read_ccb(c, sector, len) ==
    LET z == ccb_clear_all_except_hdr(c)
    IN  [hdr |-> freebsd_hdr(z.hdr, ccb_flags_CAM_DIR_IN),
         body |->
            [z.body EXCEPT
                !.cmd = freebsd_lba(
                    [@ EXCEPT
                        !.command = AsU8(ATA_READ_DMA48),
                        !.flags = AsU8(BitOr(BitOr(CAM_ATAIO_NEEDRESULT, CAM_ATAIO_DMA),
                                             CAM_ATAIO_48BIT)),
                        !.sector_count = freebsd_sector_count(len),
                        !.sector_count_exp = freebsd_sector_count_exp(len),
                        !.device = AsU8(ATA_DEV_LBA),
                        !.control = 0, !.features_exp = 0, !.features = 0],
                    sector),
                !.data_ptr = "buffer",
                !.dxfer_len = len,
                !.ata_flags = 0]]

\* the ccb of raw_write as handed to cam_send_ccb
freebsd_raw_write_ccb(c, sector, len) ==
    LET z == ccb_clear_all_except_hdr(c)
    IN  [hdr |-> freebsd_hdr(z.hdr, ccb_flags_CAM_DIR_OUT),
         body |->
            [z.body EXCEPT
                !.cmd = freebsd_lba(
                    [@ EXCEPT
                        !.command = AsU8(ATA_WRITE_DMA48),
                        !.flags = AsU8(BitOr(BitOr(CAM_ATAIO_NEEDRESULT, CAM_ATAIO_DMA),
                                             CAM_ATAIO_48BIT)),
                        !.sector_count = freebsd_sector_count(len),
                        !.sector_count_exp = freebsd_sector_count_exp(len),
                        !.device = AsU8(ATA_DEV_LBA),
                        !.control = 0, !.features_exp = 0, !.features = 0],
                    sector),
                !.data_ptr = "buffer",
                !.dxfer_len = len,
                !.ata_flags = 0]]

\* the ccb of raw_info as handed to cam_send_ccb
freebsd_raw_info_ccb(c) ==
    LET z == ccb_clear_all_except_hdr(c)
    IN  [hdr |-> freebsd_hdr(z.hdr, ccb_flags_CAM_DIR_IN),
         body |->
            [z.body EXCEPT
                !.cmd =
                    [@ EXCEPT
                        !.command = AsU8(ATA_ATA_IDENTIFY),
                        !.flags = AsU8(BitOr(CAM_ATAIO_NEEDRESULT, CAM_ATAIO_DMA)),
                        !.sector_count = 1,
                        !.sector_count_exp = 0,
                        !.device = AsU8(ATA_DEV_LBA),
                        !.control = 0, !.features_exp = 0, !.features = 0],
                !.data_ptr = "ident",
                !.dxfer_len = 512,
                !.ata_flags = 0]]

\* the tail of the three operations, after cam_send_ccb returned
freebsd_result(reply) ==
    IF reply.rc < 0 THEN [result |-> "Err", kind |-> reply.kind]
    ELSE IF BitAnd(reply.status, 1) # 0 THEN [result |-> "Err", kind |-> "InvalidData"]
    ELSE [result |-> "Ok", kind |-> "-"]

\* the command cam_send_ccb(self.cam, self.ccb) receives, and what the block
\* held when the operation began (history): an LBA register that was not
\* zero, a result status that was not zero
freebsd_cmd(c) ==
    [via |-> "cam_send_ccb", cam |-> handle.cam, ccb |-> c,
     before |-> [lba |-> \E r \in LbaRegs : ccb.body.cmd[r] # 0,
                 res |-> ccb.body.res_status # 0]]

\* the resources of the handle are no longer held
freebsd_stale == os_res.cam # "held" \/ os_res.ccb # "held"

\* one operation from ccb_clear_all_except_hdr on: the block as sent, then
\* the block with the status the kernel stored
freebsd_submit(op, sector, len, sent, reply) ==
    LET r == freebsd_result(reply)
    IN  /\ ccb' = [sent EXCEPT !.body.res_status =
                        IF reply.rc < 0 THEN @ ELSE reply.status]
        /\ last' = Outcome(op, sector, len, r.result, r.kind, 1, freebsd_stale,
                           freebsd_cmd(sent), reply)

freebsd_raw_read(sector, len, reply) ==
    IF ~freebsd_debug_asserts(len) THEN
        /\ last' = Outcome("read", sector, len, "panic", "-", 0, FALSE, NoCmd, NoReply)
        /\ UNCHANGED ccb
    ELSE
        freebsd_submit("read", sector, len, freebsd_raw_read_ccb(ccb, sector, len),
                       reply)

freebsd_raw_write(sector, len, reply) ==
    IF ~freebsd_debug_asserts(len) THEN
        /\ last' = Outcome("write", sector, len, "panic", "-", 0, FALSE, NoCmd, NoReply)
        /\ UNCHANGED ccb
    ELSE
        freebsd_submit("write", sector, len, freebsd_raw_write_ccb(ccb, sector, len),
                       reply)

freebsd_raw_info(reply) ==
    freebsd_submit("info", [hi |-> 0, lo |-> 0], SECTOR_BYTES, freebsd_raw_info_ccb(ccb),
                   reply)

(***************************************************************************)
(* IdentifyDeviceData (lib.rs)                                             *)
(*                                                                         *)
(* A record is kept as the 512 bytes of its memory, as the device stored   *)
(* them, and the address of that memory modulo 8.  self.0[i] is the u16    *)
(* the host loads from bytes 2i and 2i + 1.                                *)
(***************************************************************************)
\* self.0[i] as the host reads it
Word(bytes, i, big_endian) ==
    IF big_endian THEN 256 * bytes[2 * i] + bytes[2 * i + 1]
    ELSE bytes[2 * i] + 256 * bytes[2 * i + 1]

\* &self.0[from ..= to]
WordRange(bytes, from, to, big_endian) ==
    [k \in 1 .. (to - from + 1) |-> Word(bytes, from + k - 1, big_endian)]

RECURSIVE swap_bytes(_)
swap_bytes(buffer) ==
    IF buffer = <<>> THEN <<>>
    ELSE <<BitAnd(Shr(Head(buffer), 8), 255), BitAnd(Head(buffer), 255)>>
            \o swap_bytes(Tail(buffer))

\* String::from_utf8_lossy on bytes of which none starts a valid multi-byte
\* sequence: ASCII stays, every other byte becomes U+FFFD
from_utf8_lossy(bs) == [k \in 1 .. Len(bs) |-> IF bs[k] < 128 THEN bs[k] ELSE 65533]

\* char::is_whitespace, on the characters from_utf8_lossy yields here
is_whitespace(c) == c \in (9 .. 13) \cup {32}

RECURSIVE trim_start(_)
trim_start(str) ==
    IF str # <<>> /\ is_whitespace(Head(str)) THEN trim_start(Tail(str)) ELSE str

RECURSIVE trim_end(_)
trim_end(str) ==
    IF str # <<>> /\ is_whitespace(str[Len(str)])
    THEN trim_end(SubSeq(str, 1, Len(str) - 1))
    ELSE str

trim(str) == trim_end(trim_start(str))

swap_string(buffer) == trim(from_utf8_lossy(swap_bytes(buffer)))

get_model(rec, big_endian) == swap_string(WordRange(rec.bytes, 27, 46, big_endian))
get_serial(rec, big_endian) == swap_string(WordRange(rec.bytes, 10, 19, big_endian))
get_firmware(rec, big_endian) == swap_string(WordRange(rec.bytes, 23, 26, big_endian))

\* *ptr, ptr = self.0[100..=103].as_ptr() as *const u64: the host's u64 at
\* byte 200 of the record, as its eight base-256 digits, least significant first
native_u64(bytes, big_endian) ==
    [j \in 1 .. 8 |-> IF big_endian THEN bytes[200 + 8 - j] ELSE bytes[200 + j - 1]]

\* u64::from_le: the identity on a little-endian host, a byte swap on a
\* big-endian one
from_le(digits, big_endian) ==
    IF big_endian THEN [j \in 1 .. 8 |-> digits[8 + 1 - j]] ELSE digits

\* the pointer the u64 is read through is aligned for a u64
sector_count_ptr_aligned(rec) == (rec.addr + 2 * 100) % 8 = 0

\* get_sector_count: every outcome a build can produce.  The type is
\* 2-aligned, so the u64 read may go through a misaligned pointer, which is
\* undefined: the load may work (x86-64), or the call may abort (the
\* misaligned-pointer check of debug builds, a bus error on strict targets).
get_sector_count(rec, big_endian) ==
    LET value == [result |-> "value",
                  digits |-> from_le(native_u64(rec.bytes, big_endian), big_endian)]
    IN  IF sector_count_ptr_aligned(rec) THEN {value}
        ELSE {value, [result |-> "abort", digits |-> <<>>]}

(***************************************************************************)
(* Identify records the device may return.                                 *)
(***************************************************************************)
\* the characters of the texts tried: "A", "b", " "
Alphabet == {65, 98, 32}

RECURSIVE TextsUpTo(_)
TextsUpTo(n) ==
    IF n = 0 THEN {<<>>}
    ELSE LET shorter == TextsUpTo(n - 1)
         IN  shorter \cup { Append(t, c) : t \in { u \in shorter : Len(u) = n - 1 },
                                           c \in Alphabet }

Texts == TextsUpTo(MaxTextLen)

\* byte k (from 0) of a string field of the given width holding `text`:
\* the text, space-padded, with the bytes of every pair exchanged
StoredFieldByte(text, k) ==
    LET j == IF k % 2 = 0 THEN k + 1 ELSE k - 1
    IN  IF j + 1 <= Len(text) THEN text[j + 1] ELSE 32

\* first byte and width in bytes of the string fields
FieldAt == [model |-> [at |-> 2 * 27, width |-> 2 * 20],
            serial |-> [at |-> 2 * 10, width |-> 2 * 10],
            firmware |-> [at |-> 2 * 23, width |-> 2 * 4]]

Fields == {"model", "serial", "firmware"}

\* sector counts as eight bytes at byte 200
SectorCountBytes ==
    { <<0, 0, 0, 0, 0, 0, 0, 0>>, <<1, 2, 3, 4, 5, 6, 7, 8>>,
      <<0, 0, 0, 128, 1, 0, 0, 0>>, <<255, 255, 255, 255, 255, 255, 0, 0>> }

\* the 512 bytes of a record with `text` in `field`, spaces in the other
\* string fields, `count` at words 100..103 and zero elsewhere
RecordBytes(field, text, count) ==
    [i \in 0 .. 511 |->
        IF \E f \in Fields : i >= FieldAt[f].at /\ i < FieldAt[f].at + FieldAt[f].width
        THEN LET f == CHOOSE g \in Fields :
                        i >= FieldAt[g].at /\ i < FieldAt[g].at + FieldAt[g].width
             IN  IF f = field THEN StoredFieldByte(text, i - FieldAt[f].at) ELSE 32
        ELSE IF i >= 200 /\ i < 208 THEN count[i - 200 + 1]
        ELSE 0]

\* addresses, modulo 8, a 2-aligned record can have
IdentAddrs == {0, 2, 4, 6}

\* every text in every field, and every sector count
IdentRecords ==
    { [addr |-> a, bytes |-> RecordBytes(f, t, <<1, 2, 3, 4, 5, 6, 7, 8>>),
       field |-> f, text |-> t] : a \in IdentAddrs, f \in Fields, t \in Texts }
        \cup { [addr |-> a, bytes |-> RecordBytes("model", <<65, 98>>, c),
                 field |-> "model", text |-> <<65, 98>>] :
                    a \in IdentAddrs, c \in SectorCountBytes }

\* the record tried where the record's content plays no part
DeviceRecords ==
    { [addr |-> 0, bytes |-> RecordBytes("model", <<65, 98>>, <<1, 2, 3, 4, 5, 6, 7, 8>>),
       field |-> "model", text |-> <<65, 98>>] }

(***************************************************************************)
(* The storage of an identify record and the sector that fills it          *)
(***************************************************************************)
\* struct IdentifyDeviceData([u16; 256]): the words of the array and
\* mem::size_of::<u16>()
IdentifyDeviceData_words == 256
size_of_u16 == 2

\* the size of the record with the width of a word left out
size_of_IdentifyDeviceData_in_words == IdentifyDeviceData_words

\* mem::size_of::<IdentifyDeviceData>(): one field, an array of u16
size_of_IdentifyDeviceData == IdentifyDeviceData_words * size_of_u16

\* pub const SECTOR_BYTES of freebsd.rs; linux.rs has SECTOR_BYTES above
freebsd_SECTOR_BYTES == 512

\* os::SECTOR_BYTES: the constant of the backend the build selects
os_SECTOR_BYTES(os) == IF os = "linux" THEN SECTOR_BYTES ELSE freebsd_SECTOR_BYTES

\* the bytes an identify command moves from the device to the caller's
\* storage: HDIO_DRIVE_CMD fills t.buffer with nsector sectors, of which
\* ptr::copy(.., ident, 1) takes one record; cam_send_ccb stores dxfer_len
\* bytes at data_ptr
InfoTransferBytes(cmd) ==
    IF cmd.via = "HDIO_DRIVE_CMD"
    THEN LET filled == cmd.nsector * SECTOR_BYTES
         IN  IF filled < size_of_IdentifyDeviceData THEN filled
             ELSE size_of_IdentifyDeviceData
    ELSE cmd.ccb.body.dxfer_len

\* u_ident.assume_init() after n bytes of the device's sector were stored:
\* the records the caller may get.  A byte of the storage nothing was
\* stored in is uninitialised and reads as any value.
IdentifyFilled(rec, n) ==
    { [rec EXCEPT !.bytes =
            [i \in 0 .. size_of_IdentifyDeviceData - 1 |->
                IF i < n /\ i \in DOMAIN rec.bytes THEN rec.bytes[i] ELSE u]] :
        u \in {0, 255} }

(***************************************************************************)
(* The operations of Device (lib.rs)                                       *)
(***************************************************************************)
\* Device::read
Device_read ==
    /\ dev = "live"
    /\ \E t \in Transfers :
        IF target.os = "linux" THEN
            /\ \E reply \in SgRepliesTo(t) :
                    last' = linux_raw_read(t.sector, t.len, reply)
            /\ UNCHANGED ccb
        ELSE
            \E reply \in CamRepliesTo(t) : freebsd_raw_read(t.sector, t.len, reply)
    /\ UNCHANGED <<target, dev, handle, closes, os_res, releases, ident, decoded>>

\* Device::write
Device_write ==
    /\ dev = "live"
    /\ \E t \in Transfers :
        IF target.os = "linux" THEN
            /\ \E reply \in SgRepliesTo(t) :
                    last' = linux_raw_write(t.sector, t.len, reply)
            /\ UNCHANGED ccb
        ELSE
            \E reply \in CamRepliesTo(t) : freebsd_raw_write(t.sector, t.len, reply)
    /\ UNCHANGED <<target, dev, handle, closes, os_res, releases, ident, decoded>>

\* Device::info: raw_info into uninitialised storage, returned on Ok
Device_info ==
    /\ dev = "live"
    /\ \E rec \in DeviceRecords :
        /\ IF target.os = "linux" THEN
                /\ \E reply \in HdioReplies : last' = linux_raw_info(reply)
                /\ UNCHANGED ccb
           ELSE
                \E reply \in CamReplies : freebsd_raw_info(reply)
        /\ IF last'.result = "Ok"
           THEN ident' \in IdentifyFilled(rec, InfoTransferBytes(last'.cmd))
           ELSE ident' = ident
    /\ UNCHANGED <<target, dev, handle, closes, os_res, releases, decoded>>

Next ==
    \/ Device_open
    \/ Device_close
    \/ Device_read
    \/ Device_write
    \/ Device_info
    \/ Device_drop

Spec == Init /\ [][Next]_vars

(***************************************************************************)
(* The decoders, applied to every record of IdentRecords                   *)
(***************************************************************************)
\* a caller that opened a device, got a record from info and dropped the
\* device
InitCodec ==
    /\ target \in Targets
    /\ dev = "dropped"
    /\ handle = IF target.os = "linux" THEN [NoHandle EXCEPT !.fd = 3]
                ELSE [NoHandle EXCEPT !.cam = 1, !.ccb = 2]
    /\ closes = 0
    /\ os_res = IF target.os = "linux"
                THEN [fd |-> "released", cam |-> "none", ccb |-> "none"]
                ELSE [fd |-> "none", cam |-> "released", ccb |-> "released"]
    /\ releases = IF target.os = "linux" THEN [fd |-> 1, cam |-> 0, ccb |-> 0]
                  ELSE [fd |-> 0, cam |-> 1, ccb |-> 1]
    /\ ccb = IF target.os = "linux" THEN NoCcb
             ELSE [freebsd_raw_info_ccb(NoCcb) EXCEPT !.body.res_status = 80]
    /\ last = Quiet("drop", "Ok", "-")
    /\ ident \in IdentRecords
    /\ decoded = NoDecoded

Codec_get_model ==
    /\ ident # NoIdent
    /\ decoded' = [fn |-> "get_model", result |-> "value",
                   value |-> get_model(ident, target.big_endian)]
    /\ UNCHANGED <<target, dev, handle, closes, os_res, releases, ccb, last, ident>>

Codec_get_serial ==
    /\ ident # NoIdent
    /\ decoded' = [fn |-> "get_serial", result |-> "value",
                   value |-> get_serial(ident, target.big_endian)]
    /\ UNCHANGED <<target, dev, handle, closes, os_res, releases, ccb, last, ident>>

Codec_get_firmware ==
    /\ ident # NoIdent
    /\ decoded' = [fn |-> "get_firmware", result |-> "value",
                   value |-> get_firmware(ident, target.big_endian)]
    /\ UNCHANGED <<target, dev, handle, closes, os_res, releases, ccb, last, ident>>

Codec_get_sector_count ==
    /\ ident # NoIdent
    /\ \E out \in get_sector_count(ident, target.big_endian) :
        decoded' = [fn |-> "get_sector_count", result |-> out.result,
                    value |-> out.digits]
    /\ UNCHANGED <<target, dev, handle, closes, os_res, releases, ccb, last, ident>>

NextCodec ==
    \/ Codec_get_model
    \/ Codec_get_serial
    \/ Codec_get_firmware
    \/ Codec_get_sector_count

SpecCodec == InitCodec /\ [][NextCodec]_vars

(***************************************************************************)
(* Reading a submitted command                                             *)
(***************************************************************************)
\* the last operation handed a command to the transport
Submitted == last.calls = 1

Transferred == last.op \in {"read", "write"} /\ Submitted

\* the 16-bit sector-count field: <<high byte, low byte>>
CmdCount(cmd) ==
    IF cmd.via = "SG_IO" THEN <<cmd.cmdp[5], cmd.cmdp[6]>>
    ELSE <<cmd.ccb.body.cmd.sector_count_exp, cmd.ccb.body.cmd.sector_count>>

\* <<lba_low, lba_mid, lba_high, lba_low_exp, lba_mid_exp, lba_high_exp>>
CmdLba(cmd) ==
    IF cmd.via = "SG_IO"
    THEN <<cmd.cmdp[8], cmd.cmdp[10], cmd.cmdp[12], cmd.cmdp[7], cmd.cmdp[9], cmd.cmdp[11]>>
    ELSE LET r == cmd.ccb.body.cmd
         IN  <<r.lba_low, r.lba_mid, r.lba_high, r.lba_low_exp, r.lba_mid_exp,
               r.lba_high_exp>>

CmdOpcode(cmd) ==
    CASE cmd.via = "SG_IO" -> cmd.cmdp[14]
      [] cmd.via = "HDIO_DRIVE_CMD" -> cmd.command
      [] cmd.via = "cam_send_ccb" -> cmd.ccb.body.cmd.command

\* HDIO_DRIVE_CMD has no direction field: its data phase is from the device
CmdDirection(cmd) ==
    CASE cmd.via = "SG_IO" ->
            IF cmd.dxfer_direction = SG_DXFER_FROM_DEV THEN "from-device"
            ELSE IF cmd.dxfer_direction = SG_DXFER_TO_DEV THEN "to-device"
            ELSE "other"
      [] cmd.via = "HDIO_DRIVE_CMD" -> "from-device"
      [] cmd.via = "cam_send_ccb" ->
            LET in == BitAnd(cmd.ccb.hdr.flags, ccb_flags_CAM_DIR_IN) # 0
                out == BitAnd(cmd.ccb.hdr.flags, ccb_flags_CAM_DIR_OUT) # 0
            IN  IF in /\ ~out THEN "from-device"
                ELSE IF out /\ ~in THEN "to-device"
                ELSE "other"

\* the transport call succeeded / the device reported a fault in its reply
TransportOk(cmd, reply) == IF cmd.via = "cam_send_ccb" THEN reply.rc >= 0 ELSE reply.ans >= 0

DeviceFault(cmd, reply) ==
    CASE cmd.via = "SG_IO" -> reply.sb0 # 0
      [] cmd.via = "HDIO_DRIVE_CMD" -> BitAnd(reply.status, 1) # 0
      [] cmd.via = "cam_send_ccb" -> BitAnd(reply.status, 1) # 0

(***************************************************************************)
(* Claims                                                                  *)
(***************************************************************************)
\* C1: whatever explicit close calls were made, after the drop of the Device
\* each backend release (close of the descriptor; cam_freeccb and
\* cam_close_spec_device) has been executed exactly once, and at no time more
\* than once.
C1_ReleasedExactlyOnce ==
    /\ releases.fd <= 1 /\ releases.ccb <= 1 /\ releases.cam <= 1
    /\ dev = "dropped" =>
        IF target.os = "linux" THEN releases.fd = 1
        ELSE releases.ccb = 1 /\ releases.cam = 1

\* C2: a read, write or info made after a close fails, submits nothing to
\* the transport and touches no released resource.
C2_RejectedAfterClose ==
    (closes > 0 /\ last.op \in {"read", "write", "info"}) =>
        /\ last.result # "Ok"
        /\ last.calls = 0
        /\ ~last.stale

\* C3: a read or write whose buffer length is no multiple of 512 or exceeds
\* 65536 * 512 is rejected before any transport call.
C3_BadLengthRejected ==
    (last.op \in {"read", "write"}
        /\ (last.len % SECTOR_BYTES # 0 \/ last.len > MAX_TRANSFER_SECTORS * SECTOR_BYTES)) =>
        /\ last.result # "Ok"
        /\ last.calls = 0

\* C4: a read or write with an empty buffer fails the precondition check:
\* nothing is submitted.
C4_EmptyBufferRejected ==
    (last.op \in {"read", "write"} /\ last.len = 0) =>
        /\ last.result # "Ok"
        /\ last.calls = 0

\* C5: for every buffer length that is a multiple of 512 with
\* 1 <= length / 512 <= 65536, the submitted sector-count field (high byte,
\* low byte) is (length / 512) mod 65536: both bytes zero for 65536 sectors,
\* the exact count below.
C5_SectorCountField ==
    (Transferred /\ last.len % 512 = 0 /\ last.len \div 512 >= 1
        /\ last.len \div 512 <= 65536) =>
        LET n == (last.len \div 512) % 65536
            f == CmdCount(last.cmd)
        IN  /\ f[1] \in 0 .. 255 /\ f[2] \in 0 .. 255
            /\ 256 * f[1] + f[2] = n
            /\ (last.len \div 512 = 65536 => f = <<0, 0>>)

C5_Witness ==
    /\ Transferred /\ target.os = "freebsd" /\ last.op = "read"
    /\ last.len = 65536 * 512
    /\ CmdCount(last.cmd) = <<0, 0>>

\* C6: the six LBA bytes of a submitted read or write are bits 0-7, 8-15,
\* 16-23 (lba_low, lba_mid, lba_high) and 24-31, 32-39, 40-47 (the _exp
\* registers) of the sector address: put together again they give the
\* address, and 2^48 - 1 gives six bytes of 0xFF.
C6_LbaSplit ==
    Transferred =>
        LET b == CmdLba(last.cmd)
        IN  /\ \A i \in 1 .. 6 : b[i] \in 0 .. 255
            /\ b[1] + 256 * b[2] + 65536 * b[3] = last.sector.lo
            /\ b[4] + 256 * b[5] + 65536 * b[6] = last.sector.hi
            /\ (last.sector = [hi |-> 16777215, lo |-> 16777215] =>
                    b = <<255, 255, 255, 255, 255, 255>>)

C6_Witness ==
    /\ Transferred /\ target.os = "linux" /\ last.op = "write"
    /\ last.sector = [hi |-> 16777215, lo |-> 16777215]
    /\ CmdLba(last.cmd) = <<255, 255, 255, 255, 255, 255>>

\* C7: a submitted read carries opcode 0x25 and direction from-device, a
\* write 0x35 and to-device, an identify 0xEC and from-device; in an SG_IO
\* request the direction bit of CDB byte 2 agrees with dxfer_direction.
C7_OpcodeAndDirection ==
    Submitted =>
        /\ last.op = "read" =>
            CmdOpcode(last.cmd) = 37 /\ CmdDirection(last.cmd) = "from-device"
        /\ last.op = "write" =>
            CmdOpcode(last.cmd) = 53 /\ CmdDirection(last.cmd) = "to-device"
        /\ last.op = "info" =>
            CmdOpcode(last.cmd) = 236 /\ CmdDirection(last.cmd) = "from-device"
        /\ last.cmd.via = "SG_IO" =>
            (BitAnd(last.cmd.cmdp[2], 8) # 0 <=> CmdDirection(last.cmd) = "from-device")

C7_Witness ==
    /\ Submitted /\ target.os = "linux" /\ last.op = "write"
    /\ CmdOpcode(last.cmd) = 53
    /\ BitAnd(last.cmd.cmdp[2], 8) = 0
    /\ last.cmd.dxfer_direction = SG_DXFER_TO_DEV

\* C8: when the transport call of a read, write or info succeeds and the
\* device reports a fault, the operation does not return Ok, and the error
\* it returns has a kind no transport-level error has.
C8_DeviceErrorDistinct ==
    (Submitted /\ last.op \in {"read", "write", "info"}
        /\ TransportOk(last.cmd, last.reply) /\ DeviceFault(last.cmd, last.reply)) =>
        /\ last.result # "Ok"
        /\ last.result = "Err" => last.kind \notin OsErrorKinds

\* the text has no white space at either end
Untrimmed(text) == text # <<>> /\ ~is_whitespace(text[1]) /\ ~is_whitespace(text[Len(text)])

\* C9: decoding a string field whose raw bytes hold a text with every byte
\* pair exchanged and space padding yields the text, padding trimmed.
C9_StringDecoded ==
    (decoded.fn \in {"get_model", "get_serial", "get_firmware"}
        /\ decoded.fn = "get_" \o ident.field /\ Untrimmed(ident.text)) =>
        decoded.value = ident.text

\* C10: get_sector_count returns the sum of raw byte[200 + j] * 256^j,
\* j = 0..7, on little-endian and on big-endian hosts.
C10_SectorCount ==
    decoded.fn = "get_sector_count" =>
        /\ decoded.result = "value"
        /\ decoded.value = [j \in 1 .. 8 |-> ident.bytes[200 + j - 1]]

\* C11: on every platform the storage of an identify record is 256 words of
\* 16 bits, 512 bytes, the SECTOR_BYTES of the backend; an identify command
\* that returns Ok asked for one sector and stored exactly that many bytes, so
\* the record the caller gets is the device's sector, byte for byte.
C11_IdentifyRecordSize ==
    /\ size_of_IdentifyDeviceData = 512
    /\ size_of_IdentifyDeviceData = os_SECTOR_BYTES(target.os)
    /\ (last.op = "info" /\ last.result = "Ok") =>
        /\ InfoTransferBytes(last.cmd) = size_of_IdentifyDeviceData
        /\ IF last.cmd.via = "HDIO_DRIVE_CMD" THEN last.cmd.nsector = 1
           ELSE CmdCount(last.cmd) = <<0, 1>>
        /\ DOMAIN ident.bytes = 0 .. 511
        /\ ident \in DeviceRecords

C11_Witness ==
    /\ last.op = "info" /\ last.result = "Ok" /\ target.os = "freebsd"
    /\ last.cmd.ccb.body.dxfer_len = 512
    /\ ident \in DeviceRecords
    /\ ident.bytes[511] = 0 /\ ident.bytes[2 * 27] = 98

\* C12: on the CAM backend, in every command submitted on an open handle,
\* whatever the block held from allocation or from earlier calls, every
\* register of the block past its header that the operation does not assign
\* is zero (the six LBA registers of an identify; the result status of every
\* operation), and the linkage of the header is the one cam_getccb filled in.
C12_ReusedBlockZeroed ==
    (Submitted /\ last.cmd.via = "cam_send_ccb" /\ ~last.stale) =>
        LET c == last.cmd.ccb
        IN  /\ \A r \in CmdRegs \ freebsd_assigned(last.op) : c.body.cmd[r] = 0
            /\ c.body.res_status = 0
            /\ c.hdr.linkage = CcbHdrFresh.linkage
            /\ ccb.hdr.linkage = CcbHdrFresh.linkage

C12_Witness ==
    /\ Submitted /\ last.cmd.via = "cam_send_ccb" /\ ~last.stale
    /\ last.op = "info"
    /\ last.cmd.before.lba /\ last.cmd.before.res
    /\ \A r \in LbaRegs : last.cmd.ccb.body.cmd[r] = 0
    /\ last.cmd.ccb.body.res_status = 0

\* C13: an open that fails returns an error value, leaves no handle, and
\* leaves no backend resource held that it acquired on the way.
C13_FailedOpenReleases ==
    (last.op = "open" /\ last.result # "Ok") =>
        /\ last.result = "Err"
        /\ dev = "failed" /\ handle = NoHandle
        /\ \A k \in {"fd", "cam", "ccb"} : os_res[k] # "held"

\* C14: on the ioctl backend, a read or write whose SG_IO call succeeded and
\* left a sense buffer with a non-zero first byte returns an error value,
\* whatever the second byte is; it never aborts.
C14_SenseNeverAborts ==
    (Submitted /\ last.op \in {"read", "write"} /\ last.cmd.via = "SG_IO"
        /\ last.reply.ans >= 0 /\ last.reply.sb0 # 0) =>
        last.result = "Err"

====
